---------------------------- MODULE Spec2Model ----------------------------
(***************************************************************************)
(* A model of server.py: the passkey-gated login gateway with its per-IP   *)
(* rate limiter (RateLimiter), its credential store (passkeys.csv and the  *)
(* in-memory set passkeys), and the Flask routes that sit behind the       *)
(* before_request hook check_rate_limit.                                   *)
(*                                                                         *)
(* Python strings are modelled as sequences of one-character strings, so   *)
(* that str.strip() is computed and not assumed.  A dict is a function     *)
(* whose domain is the set of its keys.  The wall clock datetime.now() is  *)
(* the variable now, in seconds; it never runs backwards.  The csv file is *)
(* a set of rows, a row being the sequence of its fields: the order of the *)
(* rows is the iteration order of a Python set, which nothing reads.       *)
(***************************************************************************)
EXTENDS Integers, Sequences, FiniteSets, TLC

VARIABLES
    pc,             \* "import": module body not yet run; "serving": app.run
    now,            \* datetime.now(), seconds
    request_counts, \* RateLimiter.request_counts: IP -> list of timestamps
    timeouts,       \* RateLimiter.timeouts: dict IP -> timeout end time
    session,        \* flask.session of each client (a signed cookie)
    passkeys,       \* the module-level set passkeys
    file,           \* passkeys.csv
    last,           \* history: the last request served and its response
    blockedAt,      \* history: per IP, when its current run of rejections began
    solo,           \* per IP, the limiter of a run that serves only that IP's requests
    calls,          \* per thread, the is_allowed call it is in: position and locals
    admitted,       \* history: timestamp -> number of calls that returned True with it
    jobs,           \* per thread, the add_passkey or delete_passkey it is in
    overlapped      \* history: a call or a view began in a thread while another
                    \* thread was in one

\* What the gateway's actions leave alone.
aside == <<solo, calls, admitted, jobs, overlapped>>

vars == <<pc, now, request_counts, timeouts, session, passkeys, file, last, blockedAt, aside>>

-----------------------------------------------------------------------------
(* Bounds of the model *)

\* Seconds the clock advances in one Tick.
TickSeconds == 20
\* Ticks of the clock in the limiter's specification.
MaxTicks == 6
\* Ticks, of one minute each, in the gateway's specification.
MaxMinutes == 1
\* Ticks of the clock in the specification of two IPs.
IsolationTicks == 3
\* Ticks of the clock in the specification of calls that run one at a time.
ThreadTicks == 4
\* Admissions after which no call begins in the specification of threads.
MaxAdmitted == 8

-----------------------------------------------------------------------------
(* Program constants *)

ADMIN_PASSKEY == <<"a", "d", "m", "i", "n", "1", "2", "3">>

requests_per_minute == 7
timeout_seconds == 60
\* timedelta(minutes=1), in seconds
MinuteSeconds == 60

secret123 == <<"s", "e", "c", "r", "e", "t", "1", "2", "3">>
user456 == <<"u", "s", "e", "r", "4", "5", "6">>
guest789 == <<"g", "u", "e", "s", "t", "7", "8", "9">>
default_passkeys == {secret123, user456, guest789}

-----------------------------------------------------------------------------
(* Inputs *)

IPs == {"10.0.0.1", "10.0.0.2"}
Clients == {"c1", "c2"}

\* A passkey no default holds, the same with blanks around it, and a blank one.
newkey == <<"k">>
padded == <<" ">> \o newkey \o <<"\t">>
blank == <<" ", "\t">>
Candidates == {ADMIN_PASSKEY, secret123, newkey, padded, blank, <<>>}

\* What a request carries of its origin: the X-Forwarded-For header (a list of
\* addresses, empty when the header is absent) and the connection's address.
Direct(ip) == [forwarded |-> <<>>, remote_addr |-> ip]
Forwarded(ips, proxy) == [forwarded |-> ips, remote_addr |-> proxy]

\* request.get_json(): None, or a dict with or without the key 'passkey'.
NoJson == [json |-> FALSE, fields |-> <<>>]
JsonBody(p) == [json |-> TRUE, fields |-> [k \in {"passkey"} |-> p]]
Bodies == {NoJson, [json |-> TRUE, fields |-> <<>>]} \cup {JsonBody(p) : p \in Candidates \ {<<>>}}

\* The path segment <passkey> of DELETE /api/passkeys/<passkey> is never empty.
Paths == Candidates \ {<<>>}

-----------------------------------------------------------------------------
(* Python helpers *)

Whitespace == {" ", "\t", "\n", "\r"}

RECURSIVE lstrip(_)
lstrip(s) == IF s # <<>> /\ Head(s) \in Whitespace THEN lstrip(Tail(s)) ELSE s

RECURSIVE rstrip(_)
rstrip(s) ==
    IF s # <<>> /\ s[Len(s)] \in Whitespace THEN rstrip(SubSeq(s, 1, Len(s) - 1)) ELSE s

\* str.strip()
strip(s) == rstrip(lstrip(s))

\* d[k] = v
Put(d, k, v) == [a \in DOMAIN d \cup {k} |-> IF a = k THEN v ELSE d[a]]

\* del d[k]
Del(d, k) == [a \in DOMAIN d \ {k} |-> d[a]]

\* bool(session.get(k)): a missing key reads as None, which is falsy
session_get(s, k) == k \in DOMAIN s /\ s[k]

\* session.clear(), and the session of a client that has no cookie yet
EmptySession == <<>>

-----------------------------------------------------------------------------
(* Rate limiter *)

\* RateLimiter.get_real_ip
get_real_ip(req) ==
    IF req.forwarded # <<>> THEN req.forwarded[1] ELSE req.remote_addr

\* The mutant of the pruning that keeps every timestamp.
InWindow_keeping(log, minute_ago) == log

\* The mutant of the pruning that keeps a timestamp exactly one minute old.
InWindow_inclusive(log, minute_ago) == SelectSeq(log, LAMBDA t : t >= minute_ago)

\* The mutant of the pruning that keeps two minutes of timestamps.
InWindow_late(log, minute_ago) == SelectSeq(log, LAMBDA t : t > minute_ago - MinuteSeconds)

\* [t for t in self.request_counts[ip] if t > minute_ago]
InWindow(log, minute_ago) == SelectSeq(log, LAMBDA t : t > minute_ago)

\* The mutant of is_allowed that restarts the timeout at every blocked request.
is_allowed_extending(ip) ==
    IF ip \in DOMAIN timeouts /\ now < timeouts[ip]
    THEN [allowed |-> FALSE, request_counts |-> request_counts,
          timeouts |-> Put(timeouts, ip, now + timeout_seconds)]
    ELSE LET cleared == Del(timeouts, ip)
             pruned == InWindow(request_counts[ip], now - MinuteSeconds)
         IN  IF Len(pruned) >= requests_per_minute
             THEN [allowed |-> FALSE,
                   request_counts |-> [request_counts EXCEPT ![ip] = pruned],
                   timeouts |-> Put(cleared, ip, now + timeout_seconds)]
             ELSE [allowed |-> TRUE,
                   request_counts |-> [request_counts EXCEPT ![ip] = Append(pruned, now)],
                   timeouts |-> cleared]

\* The mutant of is_allowed that prunes the log before it looks at the timeout.
is_allowed_pruning_first(ip) ==
    LET pruned == InWindow(request_counts[ip], now - MinuteSeconds)
    IN  IF ip \in DOMAIN timeouts /\ now < timeouts[ip]
        THEN [allowed |-> FALSE,
              request_counts |-> [request_counts EXCEPT ![ip] = pruned],
              timeouts |-> timeouts]
        ELSE IF Len(pruned) >= requests_per_minute
        THEN [allowed |-> FALSE,
              request_counts |-> [request_counts EXCEPT ![ip] = pruned],
              timeouts |-> Put(Del(timeouts, ip), ip, now + timeout_seconds)]
        ELSE [allowed |-> TRUE,
              request_counts |-> [request_counts EXCEPT ![ip] = Append(pruned, now)],
              timeouts |-> Del(timeouts, ip)]

\* The mutant of is_allowed that counts the requests of all IPs together.
RateLimiter_is_allowed_shared(self, ip) ==
    IF ip \in DOMAIN self.timeouts /\ now < self.timeouts[ip]
    THEN [allowed |-> FALSE, request_counts |-> self.request_counts, timeouts |-> self.timeouts]
    ELSE LET cleared == Del(self.timeouts, ip)
             pruned == InWindow(self.request_counts[ip], now - MinuteSeconds)
             others == {a \in DOMAIN self.request_counts :
                           a # ip /\ InWindow(self.request_counts[a], now - MinuteSeconds) # <<>>}
         IN  IF Len(pruned) + Cardinality(others) >= requests_per_minute
             THEN [allowed |-> FALSE,
                   request_counts |-> [self.request_counts EXCEPT ![ip] = pruned],
                   timeouts |-> Put(cleared, ip, now + timeout_seconds)]
             ELSE [allowed |-> TRUE,
                   request_counts |-> [self.request_counts EXCEPT ![ip] = Append(pruned, now)],
                   timeouts |-> cleared]

\* RateLimiter.is_allowed(self, ip): the verdict, and the two maps of self as
\* the call leaves them.
RateLimiter_is_allowed(self, ip) ==
    IF ip \in DOMAIN self.timeouts /\ now < self.timeouts[ip]
    THEN [allowed |-> FALSE, request_counts |-> self.request_counts, timeouts |-> self.timeouts]
    ELSE LET cleared == Del(self.timeouts, ip)
             pruned == InWindow(self.request_counts[ip], now - MinuteSeconds)
         IN  IF Len(pruned) >= requests_per_minute
             THEN [allowed |-> FALSE,
                   request_counts |-> [self.request_counts EXCEPT ![ip] = pruned],
                   timeouts |-> Put(cleared, ip, now + timeout_seconds)]
             ELSE [allowed |-> TRUE,
                   request_counts |-> [self.request_counts EXCEPT ![ip] = Append(pruned, now)],
                   timeouts |-> cleared]

\* RateLimiter.__init__, with the verdict of a call that has not been made.
NewLimiter ==
    [allowed |-> TRUE, request_counts |-> [ip \in IPs |-> <<>>], timeouts |-> <<>>]

\* The threads of the server that may be inside is_allowed at once.
Threads == {"t1", "t2"}

\* A thread that is not inside is_allowed.
NoCall == [at |-> "idle", ip |-> "", now |-> 0, pruned |-> <<>>]

\* A thread that is in no view; status is that of its last response, 0 before.
Done(status) == [at |-> "idle", passkey |-> <<>>, buffer |-> <<>>, status |-> status]

\* rate_limiter.is_allowed(ip), on the one RateLimiter of the module.
is_allowed(ip) ==
    RateLimiter_is_allowed([request_counts |-> request_counts, timeouts |-> timeouts], ip)

-----------------------------------------------------------------------------
(* Credential store *)

NoFile == [exists |-> FALSE, rows |-> {}]

\* save_passkeys: the file is rewritten, one row of one field per passkey.
save_passkeys(passkeys_set) == [exists |-> TRUE, rows |-> {<<p>> : p \in passkeys_set}]

\* set(row[0] for row in reader if row)
read_rows(f) == {row[1] : row \in {r \in f.rows : r # <<>>}}

\* The first fields of the file's rows.
Records(f) == {row[1] : row \in f.rows}

\* The mutant of load_passkeys that returns the defaults without saving them.
load_passkeys_unsaved(f) ==
    IF f.exists
    THEN [passkeys |-> read_rows(f), file |-> f]
    ELSE [passkeys |-> default_passkeys, file |-> f]

\* The mutant of load_passkeys that seeds the defaults when it reads no passkey.
load_passkeys_seeding(f) ==
    IF f.exists /\ read_rows(f) # {}
    THEN [passkeys |-> read_rows(f), file |-> f]
    ELSE [passkeys |-> default_passkeys, file |-> save_passkeys(default_passkeys)]

\* load_passkeys: the set it returns and the file as it leaves it.
load_passkeys(f) ==
    IF f.exists
    THEN [passkeys |-> read_rows(f), file |-> f]
    ELSE [passkeys |-> default_passkeys, file |-> save_passkeys(default_passkeys)]

\* passkeys.csv when the process starts: absent, or as an earlier run of the
\* server left it.
StartFiles == {NoFile, save_passkeys({}), save_passkeys({secret123, newkey})}


-----------------------------------------------------------------------------
(* Responses *)

\* Every response has the same fields, so that any two can be compared.
Response(status, kind) ==
    [status |-> status, kind |-> kind, location |-> "", sent |-> "", error |-> "",
     message |-> "", success |-> "absent", redirect |-> "", listed |-> FALSE,
     passkeys |-> {}]

\* redirect(location)
Redirect(location) == [Response(302, "redirect") EXCEPT !.location = location]

\* send_file(name)
SendFile(name) == [Response(200, "file") EXCEPT !.sent = name]

\* jsonify({'error': error}), status
JsonError(status, error) == [Response(status, "json") EXCEPT !.error = error]

\* jsonify({'success': True, 'passkeys': list(passkeys)})
JsonPasskeys(success, set) ==
    [Response(200, "json") EXCEPT !.success = success, !.listed = TRUE, !.passkeys = set]

TooManyRequests == JsonError(429, "Too many requests. Please wait a minute.")
Unauthorized == JsonError(401, "Unauthorized")

\* What a handler leaves behind: the client's session, the store, the response.
Outcome(sess, set, f, resp) == [session |-> sess, passkeys |-> set, file |-> f, resp |-> resp]

-----------------------------------------------------------------------------
(* Routes *)

\* data.get('passkey', '') if data else ''
json_passkey(data) ==
    IF data.json /\ DOMAIN data.fields # {} /\ "passkey" \in DOMAIN data.fields
    THEN data.fields["passkey"]
    ELSE <<>>

\* GET /
index(sess) ==
    Outcome(sess, passkeys, file,
            IF session_get(sess, "is_admin") THEN Redirect("/admin")
            ELSE IF session_get(sess, "authenticated") THEN Redirect("/dashboard")
            ELSE SendFile("login.html"))

\* GET /login
login_page(sess) ==
    Outcome(sess, passkeys, file,
            IF session_get(sess, "is_admin") THEN Redirect("/admin")
            ELSE IF session_get(sess, "authenticated") THEN Redirect("/dashboard")
            ELSE SendFile("login.html"))

\* The mutant of verify that clears the session when the passkey is invalid.
verify_clearing(sess, passkey) ==
    IF passkey = ADMIN_PASSKEY
    THEN Outcome(Put(Put(sess, "authenticated", TRUE), "is_admin", TRUE), passkeys, file,
                 [Response(200, "json") EXCEPT !.success = "true", !.redirect = "/admin"])
    ELSE IF passkey \in passkeys
    THEN Outcome(Put(Put(sess, "authenticated", TRUE), "is_admin", FALSE), passkeys, file,
                 [Response(200, "json") EXCEPT !.success = "true", !.redirect = "/dashboard"])
    ELSE Outcome(EmptySession, passkeys, file,
                 [Response(401, "json") EXCEPT !.success = "false",
                                               !.message = "Invalid passkey"])

\* POST /api/verify
verify(sess, passkey) ==
    IF passkey = ADMIN_PASSKEY
    THEN Outcome(Put(Put(sess, "authenticated", TRUE), "is_admin", TRUE), passkeys, file,
                 [Response(200, "json") EXCEPT !.success = "true", !.redirect = "/admin"])
    ELSE IF passkey \in passkeys
    THEN Outcome(Put(Put(sess, "authenticated", TRUE), "is_admin", FALSE), passkeys, file,
                 [Response(200, "json") EXCEPT !.success = "true", !.redirect = "/dashboard"])
    ELSE Outcome(sess, passkeys, file,
                 [Response(401, "json") EXCEPT !.success = "false",
                                               !.message = "Invalid passkey"])

\* GET /dashboard
dashboard(sess) ==
    Outcome(sess, passkeys, file,
            IF session_get(sess, "authenticated") THEN SendFile("index.html")
            ELSE Redirect("/"))

\* The mutant of admin that is content with any authenticated session.
admin_for_users(sess) ==
    Outcome(sess, passkeys, file,
            IF session_get(sess, "authenticated") THEN SendFile("admin.html")
            ELSE Redirect("/"))

\* GET /admin
admin(sess) ==
    Outcome(sess, passkeys, file,
            IF session_get(sess, "is_admin") THEN SendFile("admin.html")
            ELSE Redirect("/"))

\* GET /api/passkeys
get_passkeys(sess) ==
    Outcome(sess, passkeys, file,
            IF ~session_get(sess, "is_admin") THEN Unauthorized
            ELSE [Response(200, "json") EXCEPT !.listed = TRUE, !.passkeys = passkeys])

\* The mutant of add_passkey that does not look for the passkey in the set.
add_passkey_unchecked(sess, raw) ==
    LET new_passkey == strip(raw)
        added == passkeys \cup {new_passkey}
    IN  IF ~session_get(sess, "is_admin") THEN Outcome(sess, passkeys, file, Unauthorized)
        ELSE IF new_passkey = <<>>
        THEN Outcome(sess, passkeys, file, JsonError(400, "Passkey cannot be empty"))
        ELSE IF new_passkey = ADMIN_PASSKEY
        THEN Outcome(sess, passkeys, file, JsonError(400, "Cannot add admin passkey"))
        ELSE Outcome(sess, added, save_passkeys(added), JsonPasskeys("true", added))

\* The mutant of add_passkey that forgets to save.
add_passkey_unsaved(sess, raw) ==
    LET new_passkey == strip(raw)
        added == passkeys \cup {new_passkey}
    IN  IF ~session_get(sess, "is_admin") THEN Outcome(sess, passkeys, file, Unauthorized)
        ELSE IF new_passkey = <<>>
        THEN Outcome(sess, passkeys, file, JsonError(400, "Passkey cannot be empty"))
        ELSE IF new_passkey = ADMIN_PASSKEY
        THEN Outcome(sess, passkeys, file, JsonError(400, "Cannot add admin passkey"))
        ELSE IF new_passkey \in passkeys
        THEN Outcome(sess, passkeys, file, JsonError(400, "Passkey already exists"))
        ELSE Outcome(sess, added, file, JsonPasskeys("true", added))

\* The mutant of add_passkey that lets the admin passkey in.
add_passkey_unreserved(sess, raw) ==
    LET new_passkey == strip(raw)
        added == passkeys \cup {new_passkey}
    IN  IF ~session_get(sess, "is_admin") THEN Outcome(sess, passkeys, file, Unauthorized)
        ELSE IF new_passkey = <<>>
        THEN Outcome(sess, passkeys, file, JsonError(400, "Passkey cannot be empty"))
        ELSE IF new_passkey \in passkeys
        THEN Outcome(sess, passkeys, file, JsonError(400, "Passkey already exists"))
        ELSE Outcome(sess, added, save_passkeys(added), JsonPasskeys("true", added))

\* POST /api/passkeys
add_passkey(sess, raw) ==
    LET new_passkey == strip(raw)
        added == passkeys \cup {new_passkey}
    IN  IF ~session_get(sess, "is_admin") THEN Outcome(sess, passkeys, file, Unauthorized)
        ELSE IF new_passkey = <<>>
        THEN Outcome(sess, passkeys, file, JsonError(400, "Passkey cannot be empty"))
        ELSE IF new_passkey = ADMIN_PASSKEY
        THEN Outcome(sess, passkeys, file, JsonError(400, "Cannot add admin passkey"))
        ELSE IF new_passkey \in passkeys
        THEN Outcome(sess, passkeys, file, JsonError(400, "Passkey already exists"))
        ELSE Outcome(sess, added, save_passkeys(added), JsonPasskeys("true", added))

\* The mutant of delete_passkey that forgets to save.
delete_passkey_unsaved(sess, passkey) ==
    LET removed == passkeys \ {passkey}
    IN  IF ~session_get(sess, "is_admin") THEN Outcome(sess, passkeys, file, Unauthorized)
        ELSE IF passkey \notin passkeys
        THEN Outcome(sess, passkeys, file, JsonError(404, "Passkey not found"))
        ELSE Outcome(sess, removed, file, JsonPasskeys("true", removed))

\* DELETE /api/passkeys/<passkey>
delete_passkey(sess, passkey) ==
    LET removed == passkeys \ {passkey}
    IN  IF ~session_get(sess, "is_admin") THEN Outcome(sess, passkeys, file, Unauthorized)
        ELSE IF passkey \notin passkeys
        THEN Outcome(sess, passkeys, file, JsonError(404, "Passkey not found"))
        ELSE Outcome(sess, removed, save_passkeys(removed), JsonPasskeys("true", removed))

\* The mutant of logout that only drops the admin flag.
logout_keeping_login(sess) ==
    Outcome(IF "is_admin" \in DOMAIN sess THEN Put(sess, "is_admin", FALSE) ELSE sess,
            passkeys, file, Redirect("/"))

\* GET /logout
logout(sess) == Outcome(EmptySession, passkeys, file, Redirect("/"))

-----------------------------------------------------------------------------
(* The before_request hook and the dispatch of a request *)

\* The mutant of check_rate_limit that lets every request through.
check_rate_limit_open(verdict) == <<>>

\* check_rate_limit: the response it returns, if any (None is the empty list).
check_rate_limit(verdict) == IF ~verdict.allowed THEN <<TooManyRequests>> ELSE <<>>

\* Flask runs the view only when no before_request function returned a response.
full_dispatch(sess, early, out) ==
    IF early # <<>> THEN Outcome(sess, passkeys, file, early[1]) ELSE out

-----------------------------------------------------------------------------
(* History *)

NoSnapshot == [passkeys |-> {}, file |-> NoFile]
Snapshot == [passkeys |-> passkeys, file |-> file]

NoAdd == [is |-> FALSE, passkey |-> <<>>, status |-> 0, passkeys |-> {}]

\* The request before this one, when it was an add that reached the store's checks.
PrevAdd ==
    IF last.op = "add_passkey" /\ last.resp.status \in {200, 400}
    THEN [is |-> TRUE, passkey |-> last.passkey, status |-> last.resp.status,
          passkeys |-> last.before.passkeys]
    ELSE NoAdd

\* The store as the event found it is kept for the events that may change it.
Event(op, c, ip, passkey, resp, blocked) ==
    [op |-> op, client |-> c, ip |-> ip, passkey |-> passkey, at |-> now,
     resp |-> resp, blockedAt |-> blocked, logged |-> Len(request_counts[ip]),
     oldest |-> IF request_counts[ip] = <<>> THEN -1 ELSE request_counts[ip][1],
     was |-> session[c],
     before |-> IF op \in {"add_passkey", "delete_passkey"} THEN Snapshot ELSE NoSnapshot,
     prevAdd |-> PrevAdd]

NoEvent ==
    [op |-> "none", client |-> "", ip |-> "", passkey |-> <<>>, at |-> 0,
     resp |-> Response(0, "none"), blockedAt |-> -1, logged |-> 0, oldest |-> -1,
     was |-> EmptySession, before |-> NoSnapshot,
     prevAdd |-> NoAdd]

-----------------------------------------------------------------------------
(* Actions *)

\* One request, from the before_request hook to the response.
Handle(op, c, req, passkey, out) ==
    /\ pc = "serving"
    /\ \E ip \in {get_real_ip(req)} :
       \E verdict \in {is_allowed(ip)} :
       \E done \in {full_dispatch(session[c], check_rate_limit(verdict), out)} :
           /\ request_counts' = verdict.request_counts
           /\ timeouts' = verdict.timeouts
           /\ session' = [session EXCEPT ![c] = done.session]
           /\ passkeys' = done.passkeys
           /\ file' = done.file
           /\ last' = Event(op, c, ip, passkey, done.resp, blockedAt[ip])
           /\ blockedAt' = [blockedAt EXCEPT ![ip] =
                               IF verdict.allowed THEN -1
                               ELSE IF blockedAt[ip] = -1 THEN now ELSE blockedAt[ip]]
    /\ UNCHANGED <<pc, now>>

Serve(op, c, req, passkey, out) ==
    /\ Handle(op, c, req, passkey, out)
    /\ UNCHANGED aside

\* passkeys = load_passkeys(), when the module is imported
Load ==
    /\ pc = "import"
    /\ LET loaded == load_passkeys(file)
       IN  /\ passkeys' = loaded.passkeys
           /\ file' = loaded.file
    /\ last' = [NoEvent EXCEPT !.op = "load_passkeys", !.before = Snapshot]
    /\ pc' = "serving"
    /\ UNCHANGED <<now, request_counts, timeouts, session, blockedAt, aside>>

\* Time passes.
Advance(seconds, limit) ==
    /\ now + seconds <= limit
    /\ now' = now + seconds
    /\ UNCHANGED <<pc, request_counts, timeouts, session, passkeys, file, last, blockedAt, aside>>

Tick == Advance(TickSeconds, MaxTicks * TickSeconds)

Minute == Advance(MinuteSeconds, MaxMinutes * MinuteSeconds)

Index(c, req) == Serve("index", c, req, <<>>, index(session[c]))

LoginPage(c, req) == Serve("login_page", c, req, <<>>, login_page(session[c]))

Verify(c, req, data) ==
    Serve("verify", c, req, json_passkey(data), verify(session[c], json_passkey(data)))

Dashboard(c, req) == Serve("dashboard", c, req, <<>>, dashboard(session[c]))

Admin(c, req) == Serve("admin", c, req, <<>>, admin(session[c]))

GetPasskeys(c, req) == Serve("get_passkeys", c, req, <<>>, get_passkeys(session[c]))

AddPasskey(c, req, data) ==
    Serve("add_passkey", c, req, json_passkey(data),
          add_passkey(session[c], json_passkey(data)))

DeletePasskey(c, req, passkey) ==
    Serve("delete_passkey", c, req, passkey, delete_passkey(session[c], passkey))

Logout(c, req) == Serve("logout", c, req, <<>>, logout(session[c]))

-----------------------------------------------------------------------------
(* Specifications *)

Init ==
    /\ pc = "import"
    /\ now = 0
    /\ request_counts = [ip \in IPs |-> <<>>]
    /\ timeouts = <<>>
    /\ session = [c \in Clients |-> EmptySession]
    /\ passkeys = {}
    /\ file \in StartFiles
    /\ last = NoEvent
    /\ blockedAt = [ip \in IPs |-> -1]
    /\ solo = [ip \in IPs |-> NewLimiter]
    /\ calls = [t \in Threads |-> NoCall]
    /\ admitted = <<>>
    /\ jobs = [t \in Threads |-> Done(0)]
    /\ overlapped = FALSE

\* The gateway: one browser on one address, every route, the clock in minutes.
GatewayClients == {"c1"}
GatewayOrigins == {Direct("10.0.0.1")}

Next ==
    \/ Load
    \/ Minute
    \/ \E c \in GatewayClients, req \in GatewayOrigins :
        \/ Index(c, req)
        \/ LoginPage(c, req)
        \/ Dashboard(c, req)
        \/ Admin(c, req)
        \/ GetPasskeys(c, req)
        \/ Logout(c, req)
        \/ \E data \in Bodies : Verify(c, req, data)
        \/ \E data \in Bodies : AddPasskey(c, req, data)
        \/ \E passkey \in Paths : DeletePasskey(c, req, passkey)

Spec == Init /\ [][Next]_vars

\* The limiter: requests for the login page that count against one address,
\* sent to it directly or through a proxy, the clock in ticks.
LimiterOrigins == {Direct("10.0.0.1"), Forwarded(<<"10.0.0.1", "10.0.0.2">>, "10.0.0.2")}

InitLimiter == Init /\ file = NoFile

NextLimiter ==
    \/ Load
    \/ Tick
    \/ \E req \in LimiterOrigins : Index("c1", req)

SpecLimiter == InitLimiter /\ [][NextLimiter]_vars

\* Two browsers on one address: the routes that write a session or the set.
SessionBodies == {JsonBody(p) : p \in {ADMIN_PASSKEY, secret123, blank}}
SessionPaths == {secret123, newkey}

NextSessions ==
    \/ Load
    \/ Minute
    \/ \E c \in Clients, req \in GatewayOrigins :
        \/ Index(c, req)
        \/ Dashboard(c, req)
        \/ GetPasskeys(c, req)
        \/ Logout(c, req)
        \/ \E data \in SessionBodies : Verify(c, req, data)
        \/ \E data \in SessionBodies : AddPasskey(c, req, data)
        \/ \E passkey \in SessionPaths : DeletePasskey(c, req, passkey)

SpecSessions == Init /\ [][NextSessions]_vars

\* GET / from one IP, in the run of the server and in the run that serves
\* only that IP's requests.
IndexBoth(c, req) ==
    /\ Handle("index", c, req, <<>>, index(session[c]))
    /\ LET ip == get_real_ip(req)
       IN  solo' = [solo EXCEPT ![ip] = RateLimiter_is_allowed(solo[ip], ip)]
    /\ UNCHANGED <<calls, admitted, jobs, overlapped>>

-----------------------------------------------------------------------------
(* is_allowed statement by statement, for calls that run in threads *)

\* The locals of a call of is_allowed and the statement it is about to run.
Call(at, ip, t, pruned) == [at |-> at, ip |-> ip, now |-> t, pruned |-> pruned]

\* The thread that runs statement `at` next.
At(t, at) == pc = "serving" /\ calls[t].at = at

\* The call of thread t moves to statement `at`.
Goto(t, at) == calls' = [calls EXCEPT ![t].at = at]

\* The call of thread t returns, or raises.
Return(t) == calls' = [calls EXCEPT ![t] = NoCall]

\* check_rate_limit calls is_allowed: now = datetime.now()
Enter(t, req) ==
    /\ At(t, "idle")
    /\ calls' = [calls EXCEPT ![t] = Call("l41", get_real_ip(req), now, <<>>)]
    /\ overlapped' = (overlapped \/ \E u \in Threads \ {t} : calls[u].at # "idle")
    /\ UNCHANGED <<pc, now, request_counts, timeouts, session, passkeys, file, last,
                   blockedAt, solo, admitted, jobs>>

\* The same, when the server handles one request at a time.
EnterAlone(t, req) ==
    /\ \A u \in Threads : calls[u].at = "idle"
    /\ Enter(t, req)

\* The calls that have returned True.
RECURSIVE Total(_)
Total(counts) ==
    IF DOMAIN counts = {} THEN 0
    ELSE LET k == CHOOSE k \in DOMAIN counts : TRUE
         IN  counts[k] + Total(Del(counts, k))

\* The same, when each request has a thread of its own; the run ends after
\* MaxAdmitted admissions.
EnterThreaded(t, req) ==
    /\ Total(admitted) < MaxAdmitted
    /\ Enter(t, req)

\* if ip in self.timeouts:
HasTimeout(t) ==
    /\ At(t, "l41")
    /\ Goto(t, IF calls[t].ip \in DOMAIN timeouts THEN "l42" ELSE "l49")
    /\ UNCHANGED <<pc, now, request_counts, timeouts, session, passkeys, file, last,
                   blockedAt, solo, admitted, jobs, overlapped>>

\* if now < self.timeouts[ip]: return False; a KeyError when the entry is gone
ReadTimeout(t) ==
    /\ At(t, "l42")
    /\ IF calls[t].ip \notin DOMAIN timeouts THEN Return(t)
       ELSE IF calls[t].now < timeouts[calls[t].ip] THEN Return(t)
       ELSE Goto(t, "l45")
    /\ UNCHANGED <<pc, now, request_counts, timeouts, session, passkeys, file, last,
                   blockedAt, solo, admitted, jobs, overlapped>>

\* del self.timeouts[ip]; a KeyError when the entry is gone
DelTimeout(t) ==
    /\ At(t, "l45")
    /\ IF calls[t].ip \notin DOMAIN timeouts
       THEN Return(t) /\ UNCHANGED timeouts
       ELSE Goto(t, "l49") /\ timeouts' = Del(timeouts, calls[t].ip)
    /\ UNCHANGED <<pc, now, request_counts, session, passkeys, file, last,
                   blockedAt, solo, admitted, jobs, overlapped>>

\* [t for t in self.request_counts[ip] if t > minute_ago], the new list
Prune(t) ==
    /\ At(t, "l49")
    /\ calls' = [calls EXCEPT ![t].at = "l49=",
                              ![t].pruned = InWindow(request_counts[calls[t].ip],
                                                     calls[t].now - MinuteSeconds)]
    /\ UNCHANGED <<pc, now, request_counts, timeouts, session, passkeys, file, last,
                   blockedAt, solo, admitted, jobs, overlapped>>

\* self.request_counts[ip] = the new list
StorePruned(t) ==
    /\ At(t, "l49=")
    /\ request_counts' = [request_counts EXCEPT ![calls[t].ip] = calls[t].pruned]
    /\ calls' = [calls EXCEPT ![t].at = "l52", ![t].pruned = <<>>]
    /\ UNCHANGED <<pc, now, timeouts, session, passkeys, file, last,
                   blockedAt, solo, admitted, jobs, overlapped>>

\* The mutant of the length check that admits one request more.
CheckLimit_late(t) ==
    /\ At(t, "l52")
    /\ Goto(t, IF Len(request_counts[calls[t].ip]) > requests_per_minute
               THEN "l54" ELSE "l58")
    /\ UNCHANGED <<pc, now, request_counts, timeouts, session, passkeys, file, last,
                   blockedAt, solo, admitted, jobs, overlapped>>

\* if len(self.request_counts[ip]) >= self.requests_per_minute:
CheckLimit(t) ==
    /\ At(t, "l52")
    /\ Goto(t, IF Len(request_counts[calls[t].ip]) >= requests_per_minute
               THEN "l54" ELSE "l58")
    /\ UNCHANGED <<pc, now, request_counts, timeouts, session, passkeys, file, last,
                   blockedAt, solo, admitted, jobs, overlapped>>

\* self.timeouts[ip] = now + timedelta(seconds=self.timeout_seconds); return False
StartTimeout(t) ==
    /\ At(t, "l54")
    /\ timeouts' = Put(timeouts, calls[t].ip, calls[t].now + timeout_seconds)
    /\ Return(t)
    /\ UNCHANGED <<pc, now, request_counts, session, passkeys, file, last,
                   blockedAt, solo, admitted, jobs, overlapped>>

\* The mutant of the append that replaces the log by the new timestamp.
Record_alone(t) ==
    /\ At(t, "l58")
    /\ request_counts' = [request_counts EXCEPT ![calls[t].ip] = <<calls[t].now>>]
    /\ admitted' = Put(admitted, calls[t].now,
                       IF calls[t].now \in DOMAIN admitted
                       THEN admitted[calls[t].now] + 1 ELSE 1)
    /\ Return(t)
    /\ UNCHANGED <<pc, now, timeouts, session, passkeys, file, last,
                   blockedAt, solo, jobs, overlapped>>

\* self.request_counts[ip].append(now); return True
Record(t) ==
    /\ At(t, "l58")
    /\ request_counts' = [request_counts EXCEPT
                              ![calls[t].ip] = Append(request_counts[calls[t].ip], calls[t].now)]
    /\ admitted' = Put(admitted, calls[t].now,
                       IF calls[t].now \in DOMAIN admitted
                       THEN admitted[calls[t].now] + 1 ELSE 1)
    /\ Return(t)
    /\ UNCHANGED <<pc, now, timeouts, session, passkeys, file, last,
                   blockedAt, solo, jobs, overlapped>>

\* One statement of the call of some thread.
Statement ==
    \E t \in Threads :
        \/ HasTimeout(t)
        \/ ReadTimeout(t)
        \/ DelTimeout(t)
        \/ Prune(t)
        \/ StorePruned(t)
        \/ CheckLimit(t)
        \/ StartTimeout(t)
        \/ Record(t)

\* The clock of the runs that handle one request at a time, statement by
\* statement.
ThreadTick == Advance(TickSeconds, ThreadTicks * TickSeconds)

\* The server handles one request at a time.
NextSerial ==
    \/ Load
    \/ ThreadTick
    \/ \E t \in Threads, req \in LimiterOrigins : EnterAlone(t, req)
    \/ Statement

SpecSerial == InitLimiter /\ [][NextSerial]_vars

\* The server handles each request in a thread of its own.
NextThreaded ==
    \/ Load
    \/ Minute
    \/ \E t \in Threads, req \in LimiterOrigins : EnterThreaded(t, req)
    \/ Statement

SpecThreaded == InitLimiter /\ [][NextThreaded]_vars

-----------------------------------------------------------------------------
(* add_passkey and delete_passkey statement by statement, in threads *)

\* writer.writerow([passkey]): the field and the line terminator
writerow(passkey) == passkey \o <<"\r", "\n">>

\* The characters that writing the passkeys in this order produces.
RECURSIVE Written(_)
Written(order) ==
    IF order = <<>> THEN <<>> ELSE writerow(Head(order)) \o Written(Tail(order))

\* The orders in which a set may be iterated.
RECURSIVE Orders(_)
Orders(S) ==
    IF S = {} THEN {<<>>}
    ELSE UNION {{<<x>> \o order : order \in Orders(S \ {x})} : x \in S}

\* csv.reader over the characters, `if row`: the first fields of the lines
\* that are not empty; field is the line read so far.
RECURSIVE reader(_, _)
reader(chars, field) ==
    IF chars = <<>> THEN (IF field = <<>> THEN {} ELSE {field})
    ELSE IF Head(chars) \in {"\r", "\n"}
    THEN (IF field = <<>> THEN {} ELSE {field}) \cup reader(Tail(chars), <<>>)
    ELSE reader(Tail(chars), Append(field, Head(chars)))

\* The file when a handle opened with 'w' is closed: its buffer goes to offset
\* 0 of what the file holds by then, and what lies beyond the buffer's length
\* stays. A set is iterated in an order that the build chooses.
Flushed(f, buffer) ==
    {[exists |-> TRUE,
      rows |-> {<<p>> : p \in reader(Written(mine) \o SubSeq(Written(theirs),
                                                            Len(Written(mine)) + 1,
                                                            Len(Written(theirs))), <<>>)}] :
        mine \in Orders(buffer), theirs \in Orders(Records(f))}

\* The view of thread t runs statement `at` next.
In(t, at) == pc = "serving" /\ jobs[t].at = at

\* The view of thread t moves to statement `at`.
Jump(t, at) == jobs' = [jobs EXCEPT ![t].at = at]

\* The view of thread t returns, or raises.
Respond(t, status) == jobs' = [jobs EXCEPT ![t] = Done(status)]

\* A request for one of the two views arrives in thread t: the before_request
\* hook, then the view up to its test of the passkey set (early is the status
\* it returns before that, 0 if none).
Begin(t, req, early, passkey, at) ==
    /\ In(t, "idle")
    /\ \E ip \in {get_real_ip(req)} :
       \E verdict \in {is_allowed(ip)} :
           /\ request_counts' = verdict.request_counts
           /\ timeouts' = verdict.timeouts
           /\ blockedAt' = [blockedAt EXCEPT ![ip] =
                               IF verdict.allowed THEN -1
                               ELSE IF blockedAt[ip] = -1 THEN now ELSE blockedAt[ip]]
           /\ IF check_rate_limit(verdict) # <<>> THEN Respond(t, 429)
              ELSE IF early # 0 THEN Respond(t, early)
              ELSE jobs' = [jobs EXCEPT ![t] = [at |-> at, passkey |-> passkey,
                                                buffer |-> <<>>, status |-> 0]]
    /\ overlapped' = (overlapped \/ \E u \in Threads \ {t} : jobs[u].at # "idle")
    /\ UNCHANGED <<pc, now, session, passkeys, file, last, solo, calls, admitted>>

\* POST /api/passkeys, to the test of line 183
BeginAdd(t, c, req, data) ==
    Begin(t, req,
          IF ~session_get(session[c], "is_admin") THEN 401
          ELSE IF strip(json_passkey(data)) = <<>> THEN 400
          ELSE IF strip(json_passkey(data)) = ADMIN_PASSKEY THEN 400
          ELSE 0,
          strip(json_passkey(data)), "l183")

\* DELETE /api/passkeys/<passkey>, to the test of line 197
BeginDelete(t, c, req, passkey) ==
    Begin(t, req, IF ~session_get(session[c], "is_admin") THEN 401 ELSE 0, passkey, "l197")

\* if new_passkey in passkeys: return 400
AddCheck(t) ==
    /\ In(t, "l183")
    /\ IF jobs[t].passkey \in passkeys THEN Respond(t, 400) ELSE Jump(t, "l186")
    /\ UNCHANGED <<pc, now, request_counts, timeouts, session, passkeys, file, last,
                   blockedAt, solo, calls, admitted, overlapped>>

\* passkeys.add(new_passkey)
AddToSet(t) ==
    /\ In(t, "l186")
    /\ passkeys' = passkeys \cup {jobs[t].passkey}
    /\ Jump(t, "l80")
    /\ UNCHANGED <<pc, now, request_counts, timeouts, session, file, last,
                   blockedAt, solo, calls, admitted, overlapped>>

\* if passkey not in passkeys: return 404
DeleteCheck(t) ==
    /\ In(t, "l197")
    /\ IF jobs[t].passkey \notin passkeys THEN Respond(t, 404) ELSE Jump(t, "l200")
    /\ UNCHANGED <<pc, now, request_counts, timeouts, session, passkeys, file, last,
                   blockedAt, solo, calls, admitted, overlapped>>

\* passkeys.remove(passkey); a KeyError, answered 500, when it is gone
RemoveFromSet(t) ==
    /\ In(t, "l200")
    /\ IF jobs[t].passkey \notin passkeys
       THEN Respond(t, 500) /\ UNCHANGED passkeys
       ELSE Jump(t, "l80") /\ passkeys' = passkeys \ {jobs[t].passkey}
    /\ UNCHANGED <<pc, now, request_counts, timeouts, session, file, last,
                   blockedAt, solo, calls, admitted, overlapped>>

\* The mutant of the open that does not truncate the file.
Open_keeping(t) ==
    /\ In(t, "l80")
    /\ file' = [exists |-> TRUE, rows |-> file.rows]
    /\ Jump(t, "l82")
    /\ UNCHANGED <<pc, now, request_counts, timeouts, session, passkeys, last,
                   blockedAt, solo, calls, admitted, overlapped>>

\* save_passkeys: open(PASSKEYS_FILE, 'w') truncates the file
Open(t) ==
    /\ In(t, "l80")
    /\ file' = [exists |-> TRUE, rows |-> {}]
    /\ Jump(t, "l82")
    /\ UNCHANGED <<pc, now, request_counts, timeouts, session, passkeys, last,
                   blockedAt, solo, calls, admitted, overlapped>>

\* for passkey in passkeys_set: writer.writerow([passkey]), into the buffer of
\* the handle
WriteRows(t) ==
    /\ In(t, "l82")
    /\ jobs' = [jobs EXCEPT ![t].at = "l83", ![t].buffer = <<passkeys>>]
    /\ UNCHANGED <<pc, now, request_counts, timeouts, session, passkeys, file, last,
                   blockedAt, solo, calls, admitted, overlapped>>

\* The with block ends: the handle is closed and its buffer written; the view
\* returns 200.
Close(t) ==
    /\ In(t, "l83")
    /\ file' \in Flushed(file, jobs[t].buffer[1])
    /\ Respond(t, 200)
    /\ UNCHANGED <<pc, now, request_counts, timeouts, session, passkeys, last,
                   blockedAt, solo, calls, admitted, overlapped>>

\* One statement of the view of some thread.
StoreStatement ==
    \E t \in Threads :
        \/ AddCheck(t)
        \/ AddToSet(t)
        \/ DeleteCheck(t)
        \/ RemoveFromSet(t)
        \/ Open(t)
        \/ WriteRows(t)
        \/ Close(t)

\* What the Admin's browser sends.
StoreBodies == {JsonBody(p) : p \in {padded, secret123}}
StorePaths == {newkey, secret123}

\* One browser logs in as Admin; its add and delete requests each run in a
\* thread of their own.
NextStore ==
    \/ Load
    \/ \E req \in GatewayOrigins : Verify("c1", req, JsonBody(ADMIN_PASSKEY))
    \/ \E t \in Threads, req \in GatewayOrigins :
        \/ \E data \in StoreBodies : BeginAdd(t, "c1", req, data)
        \/ \E passkey \in StorePaths : BeginDelete(t, "c1", req, passkey)
    \/ StoreStatement

\* The file that an earlier run of the server left.
InitStore == Init /\ file = save_passkeys({secret123, newkey})

SpecStore == InitStore /\ [][NextStore]_vars

\* Two IPs at the limiter.
IsolationOrigins == {Direct(ip) : ip \in IPs}

\* The clock of the two-IP runs.
IsolationTick == Advance(TickSeconds, IsolationTicks * TickSeconds)

NextIsolation ==
    \/ Load
    \/ IsolationTick
    \/ \E req \in IsolationOrigins : IndexBoth("c1", req)

SpecIsolation == InitLimiter /\ [][NextIsolation]_vars

-----------------------------------------------------------------------------
(* Reading a step and a session *)

\* A step that serves a request: the clock stands still while the server runs.
RequestStep == pc = "serving" /\ pc' = "serving" /\ now' = now

\* The last request was answered 429 by the before_request hook.
Rejected == last.resp.status = 429

\* The state of a session, as the routes read it.
Role(sess) ==
    IF session_get(sess, "is_admin") THEN "Admin"
    ELSE IF session_get(sess, "authenticated") THEN "User"
    ELSE "Anonymous"

\* The timestamps of a log that lie in the minute before t, t included.
Recent(log, t) == {i \in DOMAIN log : log[i] > t - MinuteSeconds}

\* The IP has a timeout that has not expired.
TimedOut(ip) == ip \in DOMAIN timeouts /\ now < timeouts[ip]

-----------------------------------------------------------------------------
(* The rate limiter's claims, under SpecLimiter *)

\* C1: once requests_per_minute requests of an IP are logged and all lie in
\* the last minute, its next request is rejected; and a request of an IP whose
\* run of rejections began at time T is rejected exactly when it comes before
\* T + timeout_seconds, however many requests were rejected in between: the
\* first one at or after T + timeout_seconds is admitted.
C1_TimeoutAfterLimit ==
    [][RequestStep =>
        LET ip == last'.ip
            log == request_counts[ip]
        IN  /\ (Len(log) = requests_per_minute /\ Recent(log, now) = DOMAIN log) => Rejected'
            /\ blockedAt[ip] # -1 =>
                   (Rejected' <=> now < blockedAt[ip] + timeout_seconds)]_vars

\* C1's case: a request admitted exactly timeout_seconds after the rejection
\* that began a run of rejections.
C1_Witness ==
    /\ last.op = "index"
    /\ ~Rejected
    /\ last.blockedAt # -1
    /\ last.at = last.blockedAt + timeout_seconds

\* C8: a request of an IP that has no unexpired timeout and fewer than
\* requests_per_minute timestamps in the last minute is admitted, and leaves
\* the IP without a timeout.
C8_AdmittedBelowLimit ==
    [][RequestStep =>
        LET ip == last'.ip
        IN  (~TimedOut(ip)
             /\ Cardinality(Recent(request_counts[ip], now)) < requests_per_minute)
            => (~Rejected' /\ ip \notin DOMAIN timeouts')]_vars

\* C8's case: a request admitted although the log held requests_per_minute
\* timestamps, because some had left the window; the request before it was
\* admitted too.
C8_Witness ==
    /\ last.op = "index"
    /\ ~Rejected
    /\ last.logged = requests_per_minute
    /\ last.blockedAt = -1
    /\ last.ip \notin DOMAIN timeouts

\* C9: a request of an IP whose timeout has not expired is rejected whatever
\* its log holds, and the rejection changes neither the log nor the expiry.
C9_RejectedWhileTimedOut ==
    [][RequestStep =>
        LET ip == last'.ip
        IN  TimedOut(ip) =>
                /\ Rejected'
                /\ request_counts'[ip] = request_counts[ip]
                /\ ip \in DOMAIN timeouts'
                /\ timeouts'[ip] = timeouts[ip]]_vars

\* C9's case: a request rejected by an unexpired timeout at a moment when
\* every logged timestamp has left the window.
C9_Witness ==
    /\ last.op = "index"
    /\ Rejected
    /\ last.at = now
    /\ TimedOut(last.ip)
    /\ last.blockedAt # -1 /\ last.blockedAt < now
    /\ request_counts[last.ip] # <<>>
    /\ Recent(request_counts[last.ip], now) = {}

-----------------------------------------------------------------------------
(* The gateway's claims, under Spec *)

\* The views of the passkey-management endpoints.
StoreOps == {"get_passkeys", "add_passkey", "delete_passkey"}

\* C2: a request is answered 429 exactly when the limiter rejects it (a run of
\* rejections of its IP is open after it), on every route; the answer is then
\* the fixed error, and the sessions, the passkey set and the file are as they
\* were: no view has run.
C2_RejectedRunsNoView ==
    [][RequestStep =>
        /\ Rejected' <=> blockedAt'[last'.ip] # -1
        /\ Rejected' => /\ last'.resp = TooManyRequests
                        /\ UNCHANGED <<session, passkeys, file>>]_vars

\* C2's case: an Admin's DELETE of a passkey of the set, answered 429: the
\* passkey is still there.
C2_Witness ==
    /\ last.op = "delete_passkey"
    /\ Rejected
    /\ Role(session[last.client]) = "Admin"
    /\ last.passkey \in passkeys

\* C3: of the requests the limiter admits, the dashboard serves its page to a
\* User or Admin session and redirects any other to '/'; the admin page is
\* served to an Admin session and any other is redirected to '/'; list, add and
\* delete answer 401 Unauthorized to any session but Admin's, whatever the body
\* holds, and then change neither the set, the file nor the session; none of
\* the four answers 200 to a session that is not Admin's.
C3_RouteGuards ==
    [][(RequestStep /\ ~Rejected') =>
        LET role == Role(session[last'.client])
            resp == last'.resp
        IN  /\ last'.op = "dashboard" =>
                /\ role \in {"User", "Admin"} => resp = SendFile("index.html")
                /\ role = "Anonymous" => resp = Redirect("/")
            /\ last'.op = "admin" =>
                /\ role = "Admin" => resp = SendFile("admin.html")
                /\ role # "Admin" => resp = Redirect("/")
            /\ last'.op \in StoreOps =>
                /\ role # "Admin" => /\ resp = Unauthorized
                                     /\ UNCHANGED <<session, passkeys, file>>
                /\ role = "Admin" => resp.status # 401
            /\ (last'.op \in StoreOps \cup {"admin"} /\ resp.status = 200)
                   => role = "Admin"]_vars

\* C3's case: a User session's add with a blank body, answered 401 and not 400.
C3_Witness ==
    /\ last.op = "add_passkey"
    /\ last.resp = Unauthorized
    /\ strip(last.passkey) = <<>>
    /\ Role(session[last.client]) = "User"

\* C4: an admitted verify makes the session Admin and redirects to '/admin'
\* when the passkey is the admin passkey; else makes it User and redirects to
\* '/dashboard' when the passkey is in the set, whatever the session was; else
\* answers 401 and leaves the session as it was.
C4_Verify ==
    [][(RequestStep /\ ~Rejected' /\ last'.op = "verify") =>
        LET c == last'.client
            p == last'.passkey
            resp == last'.resp
        IN  /\ p = ADMIN_PASSKEY =>
                /\ Role(session'[c]) = "Admin"
                /\ resp.status = 200 /\ resp.success = "true" /\ resp.redirect = "/admin"
            /\ (p # ADMIN_PASSKEY /\ p \in passkeys) =>
                /\ Role(session'[c]) = "User"
                /\ resp.status = 200 /\ resp.success = "true"
                /\ resp.redirect = "/dashboard"
            /\ (p # ADMIN_PASSKEY /\ p \notin passkeys) =>
                /\ session'[c] = session[c]
                /\ resp.status = 401 /\ resp.success = "false"
                /\ resp.message = "Invalid passkey"]_vars

\* C4's case: a verify with a passkey that is neither the admin's nor in the
\* set, answered 401, after which the session is still Admin.
C4_Witness ==
    /\ last.op = "verify"
    /\ last.resp.status = 401
    /\ Role(session[last.client]) = "Admin"

\* C5: once the set is loaded the admin passkey is never in it, nor in a
\* list the server sends; an add of it that reaches the store's checks is
\* answered 400 'Cannot add admin passkey'; a delete of it is never answered
\* 200; and an admitted verify of it makes the session Admin.
C5_AdminNeverStored ==
    pc = "serving" =>
        /\ ADMIN_PASSKEY \notin passkeys
        /\ ADMIN_PASSKEY \notin read_rows(file)
        /\ last.resp.listed => ADMIN_PASSKEY \notin last.resp.passkeys
        /\ (last.op = "add_passkey" /\ strip(last.passkey) = ADMIN_PASSKEY
            /\ last.resp.status \notin {429, 401}) =>
               last.resp = JsonError(400, "Cannot add admin passkey")
        /\ (last.op = "delete_passkey" /\ last.passkey = ADMIN_PASSKEY) =>
               last.resp.status # 200
        /\ (last.op = "verify" /\ last.passkey = ADMIN_PASSKEY /\ ~Rejected) =>
               (Role(session[last.client]) = "Admin" /\ last.resp.status = 200)

\* C5's case: an Admin's add of the admin passkey, refused.
C5_Witness ==
    /\ last.op = "add_passkey"
    /\ last.passkey = ADMIN_PASSKEY
    /\ last.resp.status = 400

\* C6: an add that reaches the store's checks is answered 400 and changes
\* neither the set nor the file when the passkey is blank after trimming
\* ('Passkey cannot be empty'), else when it is the admin passkey ('Cannot add
\* admin passkey'), else when it is in the set ('Passkey already exists'); any
\* other add puts the trimmed passkey in the set.  A delete of a passkey that
\* is not in the set is answered 404 and changes neither.
C6_FailuresChangeNothing ==
    [][(RequestStep /\ ~Rejected' /\ Role(session[last'.client]) = "Admin") =>
        LET p == last'.passkey
            resp == last'.resp
        IN  /\ last'.op = "add_passkey" =>
                /\ strip(p) = <<>> =>
                    /\ resp = JsonError(400, "Passkey cannot be empty")
                    /\ UNCHANGED <<passkeys, file>>
                /\ (strip(p) # <<>> /\ strip(p) = ADMIN_PASSKEY) =>
                    /\ resp = JsonError(400, "Cannot add admin passkey")
                    /\ UNCHANGED <<passkeys, file>>
                /\ (strip(p) # <<>> /\ strip(p) # ADMIN_PASSKEY /\ strip(p) \in passkeys) =>
                    /\ resp = JsonError(400, "Passkey already exists")
                    /\ UNCHANGED <<passkeys, file>>
                /\ (strip(p) # <<>> /\ strip(p) # ADMIN_PASSKEY /\ strip(p) \notin passkeys) =>
                    /\ resp.status = 200
                    /\ passkeys' = passkeys \cup {strip(p)}
            /\ (last'.op = "delete_passkey" /\ p \notin passkeys) =>
                /\ resp = JsonError(404, "Passkey not found")
                /\ UNCHANGED <<passkeys, file>>]_vars

\* C6's case: the same passkey added twice in a row: the first add succeeded,
\* the second is answered 'Passkey already exists'.
C6_Witness ==
    /\ last.op = "add_passkey"
    /\ last.resp = JsonError(400, "Passkey already exists")
    /\ last.prevAdd.is
    /\ last.prevAdd.status = 200
    /\ last.prevAdd.passkey = last.passkey

\* C7: after the load and after every request, the file exists and the first
\* fields of its rows are the passkeys of the set; the set and the file change
\* only in an add or a delete that is answered 200, and the file then holds one
\* row per passkey of the new set.
C7_FileMirrorsSet ==
    [][/\ pc' = "serving" => (file'.exists /\ Records(file') = passkeys')
       /\ (pc = "serving" /\ (passkeys' # passkeys \/ file' # file)) =>
              /\ last'.op \in {"add_passkey", "delete_passkey"}
              /\ last'.resp.status = 200
              /\ passkeys' # passkeys
              /\ file'.rows = {<<p>> : p \in passkeys'}]_vars

\* C7's case: a successful add of a new passkey, now in the set and in the file.
C7_Witness ==
    /\ last.op = "add_passkey"
    /\ last.resp.status = 200
    /\ newkey \in passkeys
    /\ <<newkey>> \in file.rows
    /\ newkey \notin last.before.passkeys

\* C10 as stated: an Admin's add(p) that reaches the store's checks, followed
\* by an Admin's delete(p) that does, leaves the set and the file as they were
\* before the add.
C10_RoundTripOfAnyPasskey ==
    (/\ last.op = "delete_passkey"
     /\ last.resp.status \in {200, 404}
     /\ last.prevAdd.is
     /\ last.prevAdd.passkey = last.passkey)
    => (passkeys = last.prevAdd.passkeys /\ Records(file) = last.prevAdd.passkeys)

\* C10 amended: an Admin's add(p) that succeeds, followed by an Admin's delete
\* of p as the add stored it (trimmed), is answered 200 and leaves the set and
\* the file as they were before the add.
C10_RoundTripOfAddedPasskey ==
    (/\ last.op = "delete_passkey"
     /\ last.resp.status \in {200, 404}
     /\ last.prevAdd.is
     /\ last.prevAdd.status = 200
     /\ last.passkey = strip(last.prevAdd.passkey))
    => /\ last.resp.status = 200
       /\ passkeys = last.prevAdd.passkeys
       /\ file.exists /\ Records(file) = last.prevAdd.passkeys

\* C10's case: a passkey sent with blanks around it is added, and the delete of
\* the trimmed passkey follows.
C10_Witness ==
    /\ last.op = "delete_passkey"
    /\ last.resp.status = 200
    /\ last.prevAdd.is
    /\ last.prevAdd.status = 200
    /\ last.prevAdd.passkey = padded
    /\ last.passkey = newkey

-----------------------------------------------------------------------------
(* The session's claims *)

\* C11: every session is Anonymous before the first request, and a session
\* that is User or Admin becomes Anonymous only in a logout of its own browser
\* that the limiter admitted: not in a failed verify, not in any other page or
\* API request, and not when an Admin deletes the passkey it logged in with.
C11_AnonymousOnlyByLogout ==
    [][/\ pc = "import" => \A c \in Clients : Role(session[c]) = "Anonymous"
       /\ \A c \in Clients :
            (Role(session[c]) # "Anonymous" /\ Role(session'[c]) = "Anonymous")
            => /\ last'.op = "logout"
               /\ last'.client = c
               /\ last'.resp.status = 302]_vars

\* C11's case: the Admin on c2 has deleted secret123, the only passkey c1 could
\* log in with, and c1 is still a User.
C11_Witness ==
    /\ last.op = "delete_passkey"
    /\ last.client = "c2"
    /\ last.passkey = secret123
    /\ last.resp.status = 200
    /\ secret123 \notin passkeys
    /\ Role(session["c1"]) = "User"

\* C12: a logout that the limiter admitted leaves the session of its browser
\* with neither key set, whatever the session was, and is answered by a
\* redirect to "/".
C12_LogoutClears ==
    (last.op = "logout" /\ ~Rejected)
    => /\ DOMAIN session[last.client] = {}
       /\ Role(session[last.client]) = "Anonymous"
       /\ last.resp.status = 302
       /\ last.resp.location = "/"

\* C12's case: an Admin has logged out.
C12_Witness ==
    /\ last.op = "logout"
    /\ ~Rejected
    /\ Role(last.was) = "Admin"
    /\ session[last.client] = EmptySession

-----------------------------------------------------------------------------
(* The log's pruning, under SpecLimiter *)

\* C13: a request of an IP that has no running timeout leaves in the log of
\* the IP, before the timestamp it may append, exactly the timestamps that were
\* later than now - 60 s, in their order, and it is rejected exactly when
\* requests_per_minute or more of them are left; a request rejected by a
\* running timeout leaves the log as it was, stale timestamps included.
C13_PrunedOnAccess ==
    [][RequestStep =>
        LET ip == last'.ip
            log == request_counts'[ip]
            kept == IF Rejected' THEN log ELSE SubSeq(log, 1, Len(log) - 1)
        IN  IF TimedOut(ip)
            THEN log = request_counts[ip]
            ELSE /\ \A i \in DOMAIN log : log[i] > now - 60
                 /\ kept = SelectSeq(request_counts[ip], LAMBDA t : t > now - 60)
                 /\ Rejected' <=> Len(kept) >= 7]_vars

\* C13's case: a request rejected by a running timeout, with a timestamp a
\* minute old or older still at the head of the log.
C13_Witness ==
    /\ Rejected
    /\ last.at = now
    /\ last.blockedAt # -1
    /\ now < last.blockedAt + 60
    /\ last.oldest # -1
    /\ last.oldest <= now - 60
    /\ request_counts[last.ip][1] = last.oldest

-----------------------------------------------------------------------------
(* The load of the credential file *)

\* C14: when the file is absent at the load, the load returns the three
\* default passkeys, and the file then exists and holds exactly one row for
\* each of them.
C14_AbsentFileSeeded ==
    (last.op = "load_passkeys" /\ ~last.before.file.exists)
    => /\ passkeys = {secret123, user456, guest789}
       /\ file.exists
       /\ file.rows = {<<secret123>>, <<user456>>, <<guest789>>}

\* C14's case: the load has run with no file.
C14_Witness ==
    /\ last.op = "load_passkeys"
    /\ last.before.file = NoFile
    /\ Cardinality(passkeys) = 3
    /\ Cardinality(file.rows) = 3

\* C15 as stated: when the file exists and is empty at the load, the load
\* returns the three default passkeys and the file then holds them.
C15_EmptyFileSeeded ==
    (/\ last.op = "load_passkeys"
     /\ last.before.file.exists
     /\ last.before.file.rows = {})
    => /\ passkeys = {secret123, user456, guest789}
       /\ file.rows = {<<secret123>>, <<user456>>, <<guest789>>}

\* C15 amended: when the file exists and is empty at the load, the load
\* returns the empty set and leaves the file as it was, empty.
C15_EmptyFileKept ==
    (/\ last.op = "load_passkeys"
     /\ last.before.file.exists
     /\ last.before.file.rows = {})
    => /\ passkeys = {}
       /\ file = last.before.file

\* C15's case: the load has run on a file that exists and has no row.
C15_Witness ==
    /\ last.op = "load_passkeys"
    /\ last.before.file.exists
    /\ last.before.file.rows = {}
    /\ pc = "serving"

-----------------------------------------------------------------------------
(* The boundaries of the window and of the timeout, under SpecLimiter *)

\* C19: a timestamp exactly 60 s old does not count: a request of an IP with
\* no running timeout whose log holds requests_per_minute or more timestamps
\* only when those exactly 60 s old are counted is admitted, and none of them
\* is left in the log; and a request that comes exactly when the timeout of its
\* IP expires is admitted and leaves the IP without a timeout.
C19_Boundaries ==
    [][RequestStep =>
        LET ip == last'.ip
            log == request_counts[ip]
            younger == {i \in DOMAIN log : log[i] > now - 60}
            exactly == {i \in DOMAIN log : log[i] = now - 60}
        IN  /\ (~TimedOut(ip) /\ Cardinality(younger) < 7 /\ exactly # {})
               => /\ ~Rejected'
                  /\ \A i \in DOMAIN request_counts'[ip] : request_counts'[ip][i] # now - 60
            /\ (ip \in DOMAIN timeouts /\ now = timeouts[ip])
               => /\ ~Rejected'
                  /\ ip \notin DOMAIN timeouts']_vars

\* C19's case: seven requests and the rejection of an eighth at one moment,
\* and the next request exactly 60 s later: the timeout expires at that
\* moment and the seven timestamps are exactly 60 s old; it is admitted.
C19_Witness ==
    /\ ~Rejected
    /\ last.at = now
    /\ last.blockedAt = now - 60
    /\ last.oldest = now - 60
    /\ last.logged = 7
    /\ request_counts[last.ip] = <<now>>
    /\ last.ip \notin DOMAIN timeouts

-----------------------------------------------------------------------------
(* The isolation of the IPs, under SpecIsolation *)

\* C20: a request of IP a leaves the log and the timeout of every other IP as
\* they were; and it is rejected exactly when the same request is rejected in
\* the run that serves only a's requests, at the same moments, and leaves a's
\* log and timeout as that run does: the requests of other IPs that come in
\* between change nothing for a.
C20_IsolatedPerIP ==
    [][RequestStep =>
        LET a == last'.ip
        IN  /\ \A b \in IPs \ {a} :
                /\ request_counts'[b] = request_counts[b]
                /\ (b \in DOMAIN timeouts') <=> (b \in DOMAIN timeouts)
                /\ b \in DOMAIN timeouts => timeouts'[b] = timeouts[b]
            /\ Rejected' <=> ~solo'[a].allowed
            /\ request_counts'[a] = solo'[a].request_counts[a]
            /\ (a \in DOMAIN timeouts') <=> (a \in DOMAIN solo'[a].timeouts)
            /\ a \in DOMAIN timeouts' => timeouts'[a] = solo'[a].timeouts[a]]_vars

\* C20's case: a request of one IP is admitted while the other IP, whose
\* requests came before, between and after its earlier ones, has a full log
\* and a running timeout.
C20_Witness ==
    /\ ~Rejected
    /\ last.at = now
    /\ last.ip = "10.0.0.2"
    /\ TimedOut("10.0.0.1")
    /\ Len(request_counts["10.0.0.1"]) = 7
    /\ Len(request_counts["10.0.0.2"]) >= 3
    /\ request_counts["10.0.0.1"][1] < request_counts["10.0.0.2"][1]
    /\ request_counts["10.0.0.2"][1] < request_counts["10.0.0.1"][7]
    /\ request_counts["10.0.0.1"][7] < now

-----------------------------------------------------------------------------
(* The limiter's bound, with and without threads *)

\* The calls that returned True with a timestamp in the window (t - 60, t].
AdmittedIn(t) ==
    Total([u \in {u \in DOMAIN admitted : t - MinuteSeconds < u /\ u <= t} |-> admitted[u]])

\* The windows to count: the admissions of any window (t - 60, t] all lie in
\* the window that ends at the latest of them.
WindowEnds == DOMAIN admitted \cup {now}

\* More than requests_per_minute calls returned True within some window.
OverAdmitted == \E t \in WindowEnds : AdmittedIn(t) > requests_per_minute

\* A call returned True with a timestamp less than a minute old, and the log
\* of the IP does not hold the timestamp for it.
LostTimestamp ==
    \E u \in DOMAIN admitted :
        /\ u > now - MinuteSeconds
        /\ \A ip \in IPs :
            Cardinality({i \in DOMAIN request_counts[ip] : request_counts[ip][i] = u})
                < admitted[u]

\* C16: when the server handles one request at a time, at most 7 calls of
\* is_allowed for the IP return True with timestamps in any window (t - 60, t],
\* the log of an IP never holds more than 7 timestamps, and the log holds every
\* timestamp less than a minute old that a call returned True with.
C16_SerialBound ==
    /\ \A t \in WindowEnds : AdmittedIn(t) <= 7
    /\ \A ip \in IPs : Len(request_counts[ip]) <= 7
    /\ ~LostTimestamp

\* C16's case: more than 7 calls have returned True by now, 7 of them in the
\* last minute at two moments or more, and no call is in progress.
C16_Witness ==
    /\ \A t \in Threads : calls[t].at = "idle"
    /\ Total(admitted) > 7
    /\ AdmittedIn(now) = 7
    /\ Cardinality({u \in DOMAIN admitted : u > now - 60}) >= 2
    /\ Len(request_counts["10.0.0.1"]) = 7
    /\ ~overlapped

\* C17: with each request in a thread of its own, more than 7 admissions within
\* one window and a lost timestamp are both reachable (the case below), and
\* neither happens, nor a log of more than 7 timestamps, before a call has
\* begun while another call was in progress.
C17_HazardNeedsOverlap ==
    (\/ OverAdmitted
     \/ LostTimestamp
     \/ \E ip \in IPs : Len(request_counts[ip]) > 7)
    => overlapped

\* C17's case: both calls have returned, more than 7 calls returned True with
\* timestamps in the last minute, and the log has lost one of the timestamps.
C17_Witness ==
    /\ \A t \in Threads : calls[t].at = "idle"
    /\ overlapped
    /\ AdmittedIn(now) > 7
    /\ LostTimestamp

-----------------------------------------------------------------------------
(* The credential store with threads, under SpecStore *)

\* C18: with the Admin's add and delete requests each in a thread of its own,
\* a state in which both have been answered 200 and the records of the file
\* differ from the passkey set is reachable (the case below); and when no view
\* is in progress the records differ from the set only after a view has begun
\* while another was in progress.
C18_MismatchNeedsOverlap ==
    (/\ pc = "serving"
     /\ \A t \in Threads : jobs[t].at = "idle"
     /\ Records(file) # passkeys)
    => overlapped

\* C18's case: the last request of each thread was answered 200, no view is
\* in progress, and the file holds a record that is not in the set or lacks
\* one that is.
C18_Witness ==
    /\ pc = "serving"
    /\ \A t \in Threads : jobs[t].at = "idle" /\ jobs[t].status = 200
    /\ Records(file) # passkeys

=============================================================================
